---- MODULE Spec2Model ----
(***************************************************************************)
(* A model of the sparse voxel octree of src/src/lib.rs: the two slab      *)
(* arenas (nodes, leafs), the traversal primitive oct_index, get, insert   *)
(* and insert's four helpers, translated function by function.             *)
(***************************************************************************)
EXTENDS Integers, Sequences, FiniteSets, TLC

(***************************************************************************)
(* Program constants and bounds.                                           *)
(***************************************************************************)
\* The HALF_WIDTH every test of the repository instantiates the tree with.
HALF_WIDTH == 16

\* usize::MAX, the "no handle" sentinel; no slab ever issues it as a key.
EMPTY_PTR == -1

\* The voxel values callers insert.
Values == {1, 2}

\* Side of the cube the fill loop of test octree_leaf_node_count_2 fills
\* voxel by voxel (for x in 8..16, for y in 0..8, for z in 8..16).
FillSide == 8

\* How many single inserts a caller makes besides the fill loop.
MaxFree == 3

\* The number of fill iterations after which a caller may stop filling and
\* turn to single inserts (besides none and all of them).
MidFill == 220

(***************************************************************************)
(* Positions (PosU8).                                                      *)
(***************************************************************************)
PosU8(x, y, z) == [x |-> x, y |-> y, z |-> z]

InDomain(p) ==
    /\ p.x \in 0..(2 * HALF_WIDTH - 1)
    /\ p.y \in 0..(2 * HALF_WIDTH - 1)
    /\ p.z \in 0..(2 * HALF_WIDTH - 1)

(***************************************************************************)
(* The slab arena (crate slab): a vector of entries, each Occupied(val) or *)
(* Vacant(next free key), and the head `next` of the free list.  Keys are  *)
(* 0-based; key k is entries[k + 1].                                       *)
(***************************************************************************)
SlabNew == [entries |-> <<>>, next |-> 0]

SlabOccupied(val) == [occ |-> TRUE, val |-> val]

SlabVacant(next) == [occ |-> FALSE, next |-> next]

\* contains(key)
SlabContains(s, key) ==
    /\ key >= 0
    /\ key < Len(s.entries)
    /\ s.entries[key + 1].occ

\* slab[key] on a key that the slab contains
SlabAt(s, key) == s.entries[key + 1].val

\* vacant_key(): the key the next insert returns
SlabVacantKey(s) == s.next

\* insert(val): reuses the most recently freed slot, else appends
SlabInsert(s, val) ==
    IF s.next = Len(s.entries)
    THEN [entries |-> Append(s.entries, SlabOccupied(val)), next |-> s.next + 1]
    ELSE [entries |-> [s.entries EXCEPT ![s.next + 1] = SlabOccupied(val)],
          next |-> s.entries[s.next + 1].next]

\* remove(key) of a contained key: the slot becomes the head of the free list
SlabRemove(s, key) ==
    [entries |-> [s.entries EXCEPT ![key + 1] = SlabVacant(s.next)],
     next |-> key]

\* slab[key] = val (IndexMut) on a contained key
SlabSet(s, key, val) ==
    [s EXCEPT !.entries[key + 1] = SlabOccupied(val)]

\* the keys of the occupied slots
SlabKeys(s) == {k \in 0..(Len(s.entries) - 1) : s.entries[k + 1].occ}

\* len()
SlabLen(s) == Cardinality(SlabKeys(s))

(***************************************************************************)
(* Nodes.                                                                  *)
(***************************************************************************)
Full(leaf_ptr) == [tag |-> "Full", ptr |-> leaf_ptr]

\* ptrs is a sequence of 8 handles; octant i is ptrs[i + 1]
Mixed(ptrs) == [tag |-> "Mixed", ptrs |-> ptrs]

EmptyPtrs == [i \in 1..8 |-> EMPTY_PTR]

\* Node::new_from_ptr
new_from_ptr(ptr, ptr_index) == Mixed([EmptyPtrs EXCEPT ![ptr_index + 1] = ptr])

(***************************************************************************)
(* The memory of one Octree: its two arenas, and whether a slab access     *)
(* has panicked (an index or a remove with a key the slab does not hold).  *)
(***************************************************************************)
MkMem(n, l, f) == [nodes |-> n, leafs |-> l, fault |-> f]

\* Octree::new
new == MkMem(SlabInsert(SlabNew, Mixed(EmptyPtrs)), SlabNew, FALSE)

\* self.leafs.remove(ptr)
RemoveLeaf(mem, ptr) ==
    IF SlabContains(mem.leafs, ptr)
    THEN [mem EXCEPT !.leafs = SlabRemove(mem.leafs, ptr)]
    ELSE [mem EXCEPT !.fault = TRUE]

\* self.nodes.remove(ptr)
RemoveNode(mem, ptr) ==
    IF SlabContains(mem.nodes, ptr)
    THEN [mem EXCEPT !.nodes = SlabRemove(mem.nodes, ptr)]
    ELSE [mem EXCEPT !.fault = TRUE]

\* self.leafs.insert(val)
InsertLeaf(mem, val) == [mem EXCEPT !.leafs = SlabInsert(mem.leafs, val)]

\* self.nodes.insert(node)
InsertNode(mem, node) == [mem EXCEPT !.nodes = SlabInsert(mem.nodes, node)]

\* self.nodes[ptr] = node
SetNode(mem, ptr, node) ==
    IF SlabContains(mem.nodes, ptr)
    THEN [mem EXCEPT !.nodes = SlabSet(mem.nodes, ptr, node)]
    ELSE [mem EXCEPT !.fault = TRUE]

(***************************************************************************)
(* oct_index: the octant of pos at half_width (x is the most significant   *)
(* bit, z the least) and pos moved into that octant's frame.               *)
(***************************************************************************)
oct_index(pos, half_width) ==
    [idx |-> (IF pos.x < half_width THEN 0 ELSE 4)
             + (IF pos.y < half_width THEN 0 ELSE 2)
             + (IF pos.z < half_width THEN 0 ELSE 1),
     pos |-> [x |-> IF pos.x < half_width THEN pos.x ELSE pos.x - half_width,
              y |-> IF pos.y < half_width THEN pos.y ELSE pos.y - half_width,
              z |-> IF pos.z < half_width THEN pos.z ELSE pos.z - half_width]]

(***************************************************************************)
(* get                                                                     *)
(***************************************************************************)
None == [tag |-> "None"]

Some(val) == [tag |-> "Some", val |-> val]

Panic == [tag |-> "Panic"]

\* Some(self.leafs[ptr])
ReadLeaf(mem, ptr) ==
    IF SlabContains(mem.leafs, ptr) THEN Some(SlabAt(mem.leafs, ptr)) ELSE Panic

RECURSIVE get_loop(_, _, _, _)
\* the loop of get, from node_ptr at half_width
get_loop(mem, node_ptr, pos, half_width) ==
    IF ~SlabContains(mem.nodes, node_ptr) THEN Panic
    ELSE LET node == SlabAt(mem.nodes, node_ptr) IN
         IF node.tag = "Full" THEN ReadLeaf(mem, node.ptr)
         ELSE LET oi == oct_index(pos, half_width)
                  ptr == node.ptrs[oi.idx + 1]
              IN  IF ptr = EMPTY_PTR THEN None
                  ELSE IF half_width = 1 THEN ReadLeaf(mem, ptr)
                  ELSE get_loop(mem, ptr, oi.pos, half_width \div 2)

get(mem, pos) == get_loop(mem, 0, pos, HALF_WIDTH)

(***************************************************************************)
(* insertion_would_make_node_full.  The result is "true" or "false", or    *)
(* "panic" when the evaluation indexes a slot its slab does not hold; the  *)
(* order of evaluation (all() and && stop at the first false) is kept.     *)
(***************************************************************************)
Bool3(b) == IF b THEN "true" ELSE "false"

\* leaf_slot_has_val with the sentinel test lost: an unset slot passes
leaf_slot_has_val_or_unset(mem, ptr, insert_val) ==
    IF ptr = EMPTY_PTR THEN "true"
    ELSE IF ~SlabContains(mem.leafs, ptr) THEN "panic"
    ELSE Bool3(SlabAt(mem.leafs, ptr) = insert_val)

\* *ptr != EMPTY_PTR && self.leafs[*ptr] == *insert_val
leaf_slot_has_val(mem, ptr, insert_val) ==
    IF ptr = EMPTY_PTR THEN "false"
    ELSE IF ~SlabContains(mem.leafs, ptr) THEN "panic"
    ELSE Bool3(SlabAt(mem.leafs, ptr) = insert_val)

\* node_slot_full_with_val that accepts no sibling above leaf level
node_slot_never_full(mem, ptr, insert_val) ==
    IF ptr = EMPTY_PTR THEN "false"
    ELSE IF ~SlabContains(mem.nodes, ptr) THEN "panic"
    ELSE "false"

\* the child at ptr is non-empty and a Full node whose leaf holds insert_val
node_slot_full_with_val(mem, ptr, insert_val) ==
    IF ptr = EMPTY_PTR THEN "false"
    ELSE IF ~SlabContains(mem.nodes, ptr) THEN "panic"
    ELSE LET node == SlabAt(mem.nodes, ptr) IN
         IF node.tag # "Full" THEN "false"
         ELSE IF ~SlabContains(mem.leafs, node.ptr) THEN "panic"
         ELSE Bool3(SlabAt(mem.leafs, node.ptr) = insert_val)

RECURSIVE other_slots_all(_, _, _, _, _, _)
\* ptrs.iter().enumerate().all(..) from slot i on, skipping insert_idx
other_slots_all(mem, ptrs, insert_idx, insert_val, node_half_width, i) ==
    IF i > 7 THEN "true"
    ELSE LET r == IF i = insert_idx THEN "true"
                  ELSE IF node_half_width = 1
                       THEN leaf_slot_has_val(mem, ptrs[i + 1], insert_val)
                       ELSE node_slot_full_with_val(mem, ptrs[i + 1], insert_val)
         IN  IF r = "true"
             THEN other_slots_all(mem, ptrs, insert_idx, insert_val, node_half_width, i + 1)
             ELSE r

\* the predicate without the child the insert happens in (lines 168-188, 206)
insertion_would_make_node_full_others_only(mem, ptrs, insert_idx, insert_val, insert_pos, node_half_width) ==
    other_slots_all(mem, ptrs, insert_idx, insert_val, node_half_width, 0)

RECURSIVE insertion_would_make_node_full(_, _, _, _, _, _)
insertion_would_make_node_full(mem, ptrs, insert_idx, insert_val, insert_pos, node_half_width) ==
    IF node_half_width = 1
    THEN other_slots_all(mem, ptrs, insert_idx, insert_val, node_half_width, 0)
    ELSE LET insert_node_ptr == ptrs[insert_idx + 1]
             child_node_where_insert_would_happen_would_be_full ==
                 IF insert_node_ptr = EMPTY_PTR THEN "false"
                 ELSE IF ~SlabContains(mem.nodes, insert_node_ptr) THEN "panic"
                 ELSE LET insert_node == SlabAt(mem.nodes, insert_node_ptr) IN
                      IF insert_node.tag = "Full"
                      THEN IF ~SlabContains(mem.leafs, insert_node.ptr) THEN "panic"
                           ELSE Bool3(SlabAt(mem.leafs, insert_node.ptr) = insert_val)
                      ELSE LET oi == oct_index(insert_pos, node_half_width \div 2) IN
                           insertion_would_make_node_full(
                               mem, insert_node.ptrs, oi.idx, insert_val, oi.pos,
                               node_half_width \div 2)
         IN  IF child_node_where_insert_would_happen_would_be_full = "true"
             THEN other_slots_all(mem, ptrs, insert_idx, insert_val, node_half_width, 0)
             ELSE child_node_where_insert_would_happen_would_be_full

(***************************************************************************)
(* delete_mixed_child_nodes: frees what the 8 slots of a Mixed node at     *)
(* node_half_width refer to, slot by slot, in index order.                 *)
(***************************************************************************)
RECURSIVE delete_slots_from(_, _, _, _)
RECURSIVE delete_mixed_child_nodes(_, _, _)

\* delete_child_node that forgets the leaf of a Full child
delete_child_node_keeps_leaf(mem, ptr, node_half_width) ==
    IF ~SlabContains(mem.nodes, ptr) THEN [mem EXCEPT !.fault = TRUE]
    ELSE LET node == SlabAt(mem.nodes, ptr)
             m1 == RemoveNode(mem, ptr)
         IN  IF node.tag = "Full" THEN m1
             ELSE delete_mixed_child_nodes(m1, node.ptrs, node_half_width \div 2)

\* one iteration of the loop above leaf level: remove the child node, then
\* its leaf (Full) or, recursively, its children (Mixed)
delete_child_node(mem, ptr, node_half_width) ==
    IF ~SlabContains(mem.nodes, ptr) THEN [mem EXCEPT !.fault = TRUE]
    ELSE LET node == SlabAt(mem.nodes, ptr)
             m1 == RemoveNode(mem, ptr)
         IN  IF node.tag = "Full" THEN RemoveLeaf(m1, node.ptr)
             ELSE delete_mixed_child_nodes(m1, node.ptrs, node_half_width \div 2)

\* the for loop over ptrs, from slot i on
delete_slots_from(mem, ptrs, node_half_width, i) ==
    IF i > 7 \/ mem.fault THEN mem
    ELSE LET ptr == ptrs[i + 1]
             m1 == IF ptr = EMPTY_PTR THEN mem
                   ELSE IF node_half_width = 1 THEN RemoveLeaf(mem, ptr)
                   ELSE delete_child_node(mem, ptr, node_half_width)
         IN  delete_slots_from(m1, ptrs, node_half_width, i + 1)

\* delete_mixed_child_nodes whose loop starts at slot 1
delete_mixed_child_nodes_from_1(mem, ptrs, node_half_width) ==
    delete_slots_from(mem, ptrs, node_half_width, 1)

delete_mixed_child_nodes(mem, ptrs, node_half_width) ==
    delete_slots_from(mem, ptrs, node_half_width, 0)

(***************************************************************************)
(* insert_mixed_child_nodes_for_full_node_split: the 8 children that       *)
(* replace a Full node holding majority_val.  Returns the memory and the   *)
(* 8 handles.  Slots are allocated in index order.                         *)
(***************************************************************************)
RECURSIVE split_slots_from(_, _, _, _, _, _, _, _)
RECURSIVE insert_mixed_child_nodes_for_full_node_split(_, _, _, _, _, _)

\* the octant index handed to the recursive call for the Mixed child: the
\* code decomposes insert_pos at node_half_with (not at the child's own
\* half-width)
child_insert_index(insert_pos, node_half_with) ==
    oct_index(insert_pos, node_half_with)

\* the value of leaf i at leaf level
split_leaf_val(i, insert_idx, insert_val, majority_val) ==
    IF i = insert_idx THEN insert_val ELSE majority_val

\* the loop `for i in 0..8`, from slot i on, with the handles ptrs so far
split_slots_from(mem, ptrs, majority_val, insert_idx, insert_val, insert_pos, node_half_with, i) ==
    IF i > 7 THEN [mem |-> mem, ptrs |-> ptrs]
    ELSE IF node_half_with = 1
    THEN LET val == split_leaf_val(i, insert_idx, insert_val, majority_val)
             key == SlabVacantKey(mem.leafs)
         IN  split_slots_from(InsertLeaf(mem, val), [ptrs EXCEPT ![i + 1] = key],
                 majority_val, insert_idx, insert_val, insert_pos, node_half_with, i + 1)
    ELSE IF i = insert_idx
    THEN LET oi == child_insert_index(insert_pos, node_half_with)
             sub == insert_mixed_child_nodes_for_full_node_split(
                        mem, majority_val, oi.idx, insert_val, oi.pos,
                        node_half_with \div 2)
             key == SlabVacantKey(sub.mem.nodes)
         IN  split_slots_from(InsertNode(sub.mem, Mixed(sub.ptrs)),
                 [ptrs EXCEPT ![i + 1] = key],
                 majority_val, insert_idx, insert_val, oi.pos, node_half_with, i + 1)
    ELSE LET leaf == SlabVacantKey(mem.leafs)
             m1 == InsertLeaf(mem, majority_val)
             key == SlabVacantKey(m1.nodes)
         IN  split_slots_from(InsertNode(m1, Full(leaf)), [ptrs EXCEPT ![i + 1] = key],
                 majority_val, insert_idx, insert_val, insert_pos, node_half_with, i + 1)

insert_mixed_child_nodes_for_full_node_split(mem, majority_val, insert_idx, insert_val, insert_pos, node_half_with) ==
    split_slots_from(mem, [i \in 1..8 |-> 0], majority_val, insert_idx, insert_val,
                     insert_pos, node_half_with, 0)

(***************************************************************************)
(* insert_nodes_below_empty_ptr: a chain of Mixed nodes, one slot each,    *)
(* down to one new leaf.  Returns the memory and the handle of the top of  *)
(* the chain (the leaf itself when node_half_width is 0).                  *)
(***************************************************************************)
RECURSIVE insert_nodes_below_empty_ptr(_, _, _, _)
insert_nodes_below_empty_ptr(mem, pos, val, node_half_width) ==
    IF node_half_width = 0
    THEN [mem |-> InsertLeaf(mem, val), ptr |-> SlabVacantKey(mem.leafs)]
    ELSE LET oi == oct_index(pos, node_half_width)
             sub == insert_nodes_below_empty_ptr(mem, oi.pos, val, node_half_width \div 2)
             node == new_from_ptr(sub.ptr, oi.idx)
         IN  [mem |-> InsertNode(sub.mem, node), ptr |-> SlabVacantKey(sub.mem.nodes)]

(***************************************************************************)
(* insert.  insert_loop is the loop from node_ptr at half_width; it        *)
(* returns the memory together with a report of the return statement       *)
(* taken: kind ("noop": Full node with the same value, "split", "collapse",*)
(* "extend": empty slot, "edit": leaf overwritten in place, "panic"), the  *)
(* node and half-width the loop stood at, the octant index, and the number *)
(* of loop iterations.                                                     *)
(***************************************************************************)
Report(mem, kind, node_ptr, half_width, idx, iters) ==
    [mem |-> mem, kind |-> kind, node |-> node_ptr, hw |-> half_width,
     idx |-> idx, iters |-> iters]

\* insert_full that does not remove the old leaf
insert_full_keeps_leaf(mem, node_ptr, leaf_ptr, pos, val, half_width, iters) ==
    IF ~SlabContains(mem.leafs, leaf_ptr)
    THEN Report([mem EXCEPT !.fault = TRUE], "panic", node_ptr, half_width, 0, iters)
    ELSE LET full_val == SlabAt(mem.leafs, leaf_ptr) IN
         IF full_val # val
         THEN LET oi == oct_index(pos, half_width)
                  sub == insert_mixed_child_nodes_for_full_node_split(
                             mem, full_val, oi.idx, val, oi.pos, half_width)
                  m2 == SetNode(sub.mem, node_ptr, Mixed(sub.ptrs))
              IN  Report(m2, "split", node_ptr, half_width, oi.idx, iters)
         ELSE Report(mem, "noop", node_ptr, half_width, 0, iters)

\* Node::Full(leaf_ptr) arm: split when the values differ, else nothing
insert_full(mem, node_ptr, leaf_ptr, pos, val, half_width, iters) ==
    IF ~SlabContains(mem.leafs, leaf_ptr)
    THEN Report([mem EXCEPT !.fault = TRUE], "panic", node_ptr, half_width, 0, iters)
    ELSE LET full_val == SlabAt(mem.leafs, leaf_ptr) IN
         IF full_val # val
         THEN LET oi == oct_index(pos, half_width)
                  sub == insert_mixed_child_nodes_for_full_node_split(
                             mem, full_val, oi.idx, val, oi.pos, half_width)
                  m1 == RemoveLeaf(sub.mem, leaf_ptr)
                  m2 == SetNode(m1, node_ptr, Mixed(sub.ptrs))
              IN  Report(m2, "split", node_ptr, half_width, oi.idx, iters)
         ELSE Report(mem, "noop", node_ptr, half_width, 0, iters)

\* insert_collapse that frees the children and leaves the node Mixed
insert_collapse_keeps_node(mem, node_ptr, ptrs, val, half_width) ==
    LET m1 == delete_mixed_child_nodes(mem, ptrs, half_width)
    IN  IF m1.fault THEN m1 ELSE InsertLeaf(m1, val)

\* node_would_be_full arm: free the children, put one leaf, become Full
insert_collapse(mem, node_ptr, ptrs, val, half_width) ==
    LET m1 == delete_mixed_child_nodes(mem, ptrs, half_width)
        leaf_ptr == SlabVacantKey(m1.leafs)
        m2 == InsertLeaf(m1, val)
    IN  IF m1.fault THEN m1 ELSE SetNode(m2, node_ptr, Full(leaf_ptr))

\* ptr == EMPTY_PTR arm: build the chain below, store its handle in the slot
insert_at_empty_ptr(mem, node_ptr, ptrs, idx, pos, val, half_width) ==
    LET sub == insert_nodes_below_empty_ptr(mem, pos, val, half_width \div 2)
    IN  SetNode(sub.mem, node_ptr, Mixed([ptrs EXCEPT ![idx + 1] = sub.ptr]))

\* insert_edit_leaf that also allocates a leaf for the value
insert_edit_leaf_allocates(mem, ptr, val) ==
    IF SlabContains(mem.leafs, ptr)
    THEN [mem EXCEPT !.leafs = SlabInsert(SlabSet(mem.leafs, ptr, val), val)]
    ELSE [mem EXCEPT !.fault = TRUE]

\* half_width == 1 arm: std::mem::replace(&mut self.leafs[ptr], val)
insert_edit_leaf(mem, ptr, val) ==
    IF SlabContains(mem.leafs, ptr)
    THEN [mem EXCEPT !.leafs = SlabSet(mem.leafs, ptr, val)]
    ELSE [mem EXCEPT !.fault = TRUE]

RECURSIVE insert_loop(_, _, _, _, _, _)
insert_loop(mem, node_ptr, pos, val, half_width, iters) ==
    IF ~SlabContains(mem.nodes, node_ptr)
    THEN Report([mem EXCEPT !.fault = TRUE], "panic", node_ptr, half_width, 0, iters)
    ELSE LET node == SlabAt(mem.nodes, node_ptr) IN
         IF node.tag = "Full"
         THEN insert_full(mem, node_ptr, node.ptr, pos, val, half_width, iters)
         ELSE LET ptrs == node.ptrs
                  oi == oct_index(pos, half_width)
                  idx == oi.idx
                  node_would_be_full ==
                      insertion_would_make_node_full(mem, ptrs, idx, val, oi.pos, half_width)
                  ptr == ptrs[idx + 1]
              IN  IF node_would_be_full = "panic"
                  THEN Report([mem EXCEPT !.fault = TRUE], "panic", node_ptr, half_width, idx, iters)
                  ELSE IF node_would_be_full = "true"
                  THEN Report(insert_collapse(mem, node_ptr, ptrs, val, half_width),
                              "collapse", node_ptr, half_width, idx, iters)
                  ELSE IF ptr = EMPTY_PTR
                  THEN Report(insert_at_empty_ptr(mem, node_ptr, ptrs, idx, oi.pos, val, half_width),
                              "extend", node_ptr, half_width, idx, iters)
                  ELSE IF half_width = 1
                  THEN Report(insert_edit_leaf(mem, ptr, val),
                              "edit", node_ptr, half_width, idx, iters)
                  ELSE insert_loop(mem, ptr, oi.pos, val, half_width \div 2, iters + 1)

\* insert whose loop starts above the root's half-width
insert_from_full_width(mem, pos, val) ==
    insert_loop(mem, 0, pos, val, 2 * HALF_WIDTH, 1)

insert(mem, pos, val) == insert_loop(mem, 0, pos, val, HALF_WIDTH, 1)

(***************************************************************************)
(* The callers of the tests: the fill loop of octree_leaf_node_count_2     *)
(* (x outermost, z innermost, one value) and single inserts at chosen      *)
(* positions.                                                              *)
(***************************************************************************)
\* origin of the filled cube: for x in 8.., for y in 0.., for z in 8..
FillOrigin == PosU8(8, 0, 8)

\* the k-th position of the fill loop, k from 0
FillPos(k) ==
    PosU8(FillOrigin.x + (k \div (FillSide * FillSide)),
          FillOrigin.y + ((k \div FillSide) % FillSide),
          FillOrigin.z + (k % FillSide))

FillCount == FillSide * FillSide * FillSide

FillCube == {FillPos(k) : k \in 0..(FillCount - 1)}

\* positions of single inserts: the three positions the test reads back
\* ((13,5,9) and (8,5,9) inside the cube, (0,1,2) outside), two more voxels
\* of the 4x4x4 block of (13,5,9), and the far corner of the tree
Window ==
    {PosU8(13, 5, 9), PosU8(12, 4, 8), PosU8(8, 5, 9), PosU8(15, 7, 11),
     PosU8(0, 1, 2), PosU8(31, 31, 31)}

\* the 2x2x2 block of voxels that holds p
UnitCube(p) ==
    {PosU8(2 * (p.x \div 2) + d[1], 2 * (p.y \div 2) + d[2], 2 * (p.z \div 2) + d[3]) :
        d \in {0, 1} \X {0, 1} \X {0, 1}}

\* positions that are read back: the blocks around the single inserts, the
\* position the test reads as unset, and corners of the neighbouring octants
Probe ==
    UNION {UnitCube(p) : p \in Window}
        \cup {PosU8(0, 0, 0), PosU8(7, 7, 7), PosU8(16, 0, 8), PosU8(8, 8, 8),
              PosU8(8, 0, 16), PosU8(11, 3, 11), PosU8(12, 0, 12)}

VARIABLES
    nodes,     \* the node arena
    leafs,     \* the leaf arena
    fault,     \* a slab access panicked
    written,   \* the positions insert was called with so far
    last,      \* the report of the last insert: pos, val, kind, node, hw, idx, iters
    pre,       \* the memory the last insert started from
    fillIdx,   \* the fill loop's progress
    nfree      \* the single inserts made so far

vars == <<nodes, leafs, fault, written, last, pre, fillIdx, nfree>>

Mem == MkMem(nodes, leafs, fault)

NoLast == [pos |-> PosU8(0, 0, 0), val |-> 0, kind |-> "none", node |-> 0,
           hw |-> HALF_WIDTH, idx |-> 0, iters |-> 0]

Init ==
    /\ nodes = new.nodes
    /\ leafs = new.leafs
    /\ fault = new.fault
    /\ written = {}
    /\ last = NoLast
    /\ pre = new
    /\ fillIdx = 0
    /\ nfree = 0

\* one call octree.insert(pos, val)
Insert(pos, val) ==
    /\ ~fault
    /\ InDomain(pos)
    /\ LET r == insert(Mem, pos, val) IN
        /\ nodes' = r.mem.nodes
        /\ leafs' = r.mem.leafs
        /\ fault' = r.mem.fault
        /\ last' = [pos |-> pos, val |-> val, kind |-> r.kind, node |-> r.node,
                    hw |-> r.hw, idx |-> r.idx, iters |-> r.iters]
    /\ pre' = Mem
    /\ written' = written \cup {pos}

\* the next iteration of the fill loop
FillStep ==
    /\ fillIdx < FillCount
    /\ nfree = 0
    /\ Insert(FillPos(fillIdx), 1)
    /\ fillIdx' = fillIdx + 1
    /\ UNCHANGED nfree

\* a single insert: before the fill loop starts, after MidFill of its
\* iterations, or after it has finished
SingleInsert ==
    /\ fillIdx \in {0, MidFill, FillCount}
    /\ nfree < MaxFree
    /\ \E pos \in Window, val \in Values : Insert(pos, val)
    /\ nfree' = nfree + 1
    /\ UNCHANGED fillIdx

Next == FillStep \/ SingleInsert

Spec == Init /\ [][Next]_vars

(***************************************************************************)
(* What a state holds, for the properties below.                           *)
(***************************************************************************)
\* the non-sentinel handles of a Mixed node
Slots(node) == {node.ptrs[i] : i \in 1..8} \ {EMPTY_PTR}

RECURSIVE ReachFrom(_, _, _)
\* the <<node handle, half-width>> pairs met from node ptr at half-width hw
\* downwards, ptr included; a handle its slab does not hold is not followed
ReachFrom(mem, ptr, hw) ==
    IF ~SlabContains(mem.nodes, ptr) THEN {<<ptr, hw>>}
    ELSE LET node == SlabAt(mem.nodes, ptr) IN
         IF node.tag = "Full" \/ hw = 1 THEN {<<ptr, hw>>}
         ELSE {<<ptr, hw>>} \cup UNION {ReachFrom(mem, c, hw \div 2) : c \in Slots(node)}

Reach(mem) == ReachFrom(mem, 0, HALF_WIDTH)

\* the node handles strictly below node ptr
NodesUnder(mem, ptr, hw) == {e[1] : e \in ReachFrom(mem, ptr, hw)} \ {ptr}

\* the leaf handles stored in the nodes from ptr downwards
LeafsUnder(mem, ptr, hw) ==
    UNION {LET node == SlabAt(mem.nodes, e[1]) IN
           IF node.tag = "Full" THEN {node.ptr}
           ELSE IF e[2] = 1 THEN Slots(node) ELSE {}
           : e \in {r \in ReachFrom(mem, ptr, hw) : SlabContains(mem.nodes, r[1])}}

RECURSIVE Resolve(_, _, _)
\* {v} when the whole volume of node ptr holds v (a Full node of v, or a
\* Mixed node whose 8 octants are all set and all resolve to v), else {}
Resolve(mem, ptr, hw) ==
    LET node == SlabAt(mem.nodes, ptr) IN
    IF node.tag = "Full" THEN {SlabAt(mem.leafs, node.ptr)}
    ELSE IF \E i \in 1..8 : node.ptrs[i] = EMPTY_PTR THEN {}
    ELSE LET octs == IF hw = 1
                     THEN {{SlabAt(mem.leafs, node.ptrs[i])} : i \in 1..8}
                     ELSE {Resolve(mem, node.ptrs[i], hw \div 2) : i \in 1..8}
         IN  IF Cardinality(octs) = 1 THEN CHOOSE r \in octs : TRUE ELSE {}

RECURSIVE Log2(_)
Log2(h) == IF h <= 1 THEN 0 ELSE 1 + Log2(h \div 2)

\* an insert has completed
Inserted == last.kind # "none"

(***************************************************************************)
(* C1.  get(p) directly after insert(p, v) returns Some(v), on every path  *)
(* of insert, the split of a Full node of half-width >= 2 included.        *)
(***************************************************************************)
C1_GetAfterInsert ==
    Inserted => get(Mem, last.pos) = Some(last.val)

(***************************************************************************)
(* C2.  insert(p, v) changes get(q) for no position q other than p.        *)
(***************************************************************************)
C2_NonInterference ==
    Inserted => \A q \in Probe : q # last.pos => get(Mem, q) = get(pre, q)

(***************************************************************************)
(* C3.  insert(p, v) directly after insert(p, v) leaves both arenas        *)
(* exactly as the first call left them.                                    *)
(***************************************************************************)
C3_Idempotent ==
    Inserted => insert(Mem, last.pos, last.val).mem = Mem

(***************************************************************************)
(* C4.  get returns None for every position insert was never called with.  *)
(***************************************************************************)
C4_Absence ==
    \A q \in Probe \cup FillCube : q \notin written => get(Mem, q) = None

\* a collapse has just made a node Full while voxels of the cube are unset
C4_Witness ==
    /\ last.kind = "collapse"
    /\ \E q \in FillCube : q \notin written

(***************************************************************************)
(* C5.  No Mixed node reachable from the root, the root included, has 8    *)
(* set octants that all resolve to one and the same value.                 *)
(***************************************************************************)
C5_NoRedundantMixed ==
    \A e \in Reach(Mem) :
        SlabAt(nodes, e[1]).tag = "Mixed" => Resolve(Mem, e[1], e[2]) = {}

\* a node above leaf level has just collapsed, under a parent that stays Mixed
C5_Witness ==
    /\ last.kind = "collapse"
    /\ last.hw > 1
    /\ last.node # 0

(***************************************************************************)
(* C6.  Every handle stored in a node reachable from the root is held by   *)
(* the arena of its level: a Full node's handle and the slots of a Mixed   *)
(* node at half-width 1 by the leaf arena, the slots of a Mixed node above *)
(* by the node arena; and neither insert nor get has panicked on a slab    *)
(* access.                                                                 *)
(***************************************************************************)
C6_NoDanglingHandles ==
    /\ ~fault
    /\ \A e \in Reach(Mem) :
        /\ SlabContains(nodes, e[1])
        /\ LET node == SlabAt(nodes, e[1]) IN
           IF node.tag = "Full" THEN SlabContains(leafs, node.ptr)
           ELSE \A c \in Slots(node) :
                    IF e[2] = 1 THEN SlabContains(leafs, c) ELSE SlabContains(nodes, c)
    /\ \A q \in Probe : get(Mem, q) # Panic

\* a split has just been handed a node slot that an earlier collapse freed
C6_Witness ==
    /\ last.kind = "split"
    /\ \E k \in SlabKeys(nodes) :
        k < Len(pre.nodes.entries) /\ ~SlabContains(pre.nodes, k)

(***************************************************************************)
(* C7.  Every live node slot is the root or is referenced by exactly one   *)
(* slot of one reachable Mixed node, every live leaf slot by exactly one   *)
(* reachable node; the live leaves are the leaves reachable from the root. *)
(***************************************************************************)
\* the (node, slot) places of the nodes in R that hold a node handle
NodeRefs(mem, R) ==
    {r \in R \X (1..8) :
        /\ r[1][2] > 1
        /\ SlabContains(mem.nodes, r[1][1])
        /\ SlabAt(mem.nodes, r[1][1]).tag = "Mixed"
        /\ SlabAt(mem.nodes, r[1][1]).ptrs[r[2]] # EMPTY_PTR}

\* the places of the nodes in R that hold a leaf handle: slot 0 stands for
\* the handle of a Full node
LeafRefs(mem, R) ==
    {r \in R \X (0..8) :
        /\ SlabContains(mem.nodes, r[1][1])
        /\ LET node == SlabAt(mem.nodes, r[1][1]) IN
           IF node.tag = "Full" THEN r[2] = 0
           ELSE r[2] > 0 /\ r[1][2] = 1 /\ node.ptrs[r[2]] # EMPTY_PTR}

\* the handle stored at place r
RefTarget(mem, r) ==
    LET node == SlabAt(mem.nodes, r[1][1]) IN
    IF r[2] = 0 THEN node.ptr ELSE node.ptrs[r[2]]

C7_NoOrphans ==
    LET R == Reach(Mem)
        nrefs == NodeRefs(Mem, R)
        lrefs == LeafRefs(Mem, R)
    IN  /\ SlabContains(nodes, 0)
        \* every live node but the root is referenced, the root is not
        /\ {RefTarget(Mem, r) : r \in nrefs} = SlabKeys(nodes) \ {0}
        \* no two places hold the same node handle
        /\ Cardinality(nrefs) = SlabLen(nodes) - 1
        \* every live leaf is referenced
        /\ {RefTarget(Mem, r) : r \in lrefs} = SlabKeys(leafs)
        \* no two places hold the same leaf handle
        /\ Cardinality(lrefs) = SlabLen(leafs)
        /\ SlabLen(leafs) = Cardinality(LeafsUnder(Mem, 0, HALF_WIDTH))

\* a collapse has just freed a subtree of more than one level
C7_Witness ==
    /\ last.kind = "collapse"
    /\ Cardinality(NodesUnder(pre, last.node, last.hw)) > 8

(***************************************************************************)
(* C8.  A split of a Full(v) node of half-width h = 2^k by a value w # v   *)
(* makes the node Mixed, frees the old leaf, and leaves 7*(k+1)+1 live     *)
(* leaves below the node, 7*(k+1) holding v and one holding w; every other *)
(* node and leaf is as it was.                                             *)
(***************************************************************************)
C8_SplitAccounting ==
    last.kind = "split" =>
        LET N == last.node
            k == Log2(last.hw)
            old == SlabAt(pre.nodes, N).ptr
            v == SlabAt(pre.leafs, old)
            under == LeafsUnder(Mem, N, last.hw)
            below == NodesUnder(Mem, N, last.hw)
        IN  /\ SlabAt(pre.nodes, N).tag = "Full"
            /\ v # last.val
            /\ SlabAt(nodes, N).tag = "Mixed"
            /\ ~SlabContains(leafs, old)
            /\ under \subseteq SlabKeys(leafs)
            /\ Cardinality(under) = 7 * (k + 1) + 1
            /\ Cardinality({l \in under : SlabAt(leafs, l) = v}) = 7 * (k + 1)
            /\ Cardinality({l \in under : SlabAt(leafs, l) = last.val}) = 1
            /\ SlabKeys(nodes) = SlabKeys(pre.nodes) \cup below
            /\ below \cap SlabKeys(pre.nodes) = {}
            /\ SlabKeys(leafs) = (SlabKeys(pre.leafs) \ {old}) \cup under
            /\ under \cap SlabKeys(pre.leafs) = {}
            /\ \A n \in SlabKeys(pre.nodes) \ {N} : SlabAt(nodes, n) = SlabAt(pre.nodes, n)
            /\ \A l \in SlabKeys(pre.leafs) \ {old} : SlabAt(leafs, l) = SlabAt(pre.leafs, l)

\* the Full node of an 8x8x8 cube has just been split: 22 leaves
C8_Witness ==
    /\ last.kind = "split"
    /\ last.hw = 4
    /\ Cardinality(LeafsUnder(Mem, last.node, last.hw)) = 22

(***************************************************************************)
(* C9.  A collapse at node N leaves N, at its old slot, Full with one      *)
(* leaf holding v that is not one of the leaves kept; the nodes and leaves *)
(* that were below N are freed and nothing else changes.  A 2x2x2 node     *)
(* whose eighth voxel is set goes from 7 leaves to 1, and the filled       *)
(* 8x8x8 cube ends as 1 leaf.                                              *)
(***************************************************************************)
C9_Collapse ==
    /\ last.kind = "collapse" =>
        LET N == last.node
            was == SlabAt(pre.nodes, N)
            now == SlabAt(nodes, N)
            under == LeafsUnder(pre, N, last.hw)
            below == NodesUnder(pre, N, last.hw)
            kept == SlabKeys(pre.leafs) \ under
        IN  /\ was.tag = "Mixed"
            /\ SlabContains(nodes, N)
            /\ now.tag = "Full"
            /\ SlabContains(leafs, now.ptr)
            /\ SlabAt(leafs, now.ptr) = last.val
            /\ now.ptr \notin kept
            /\ SlabKeys(nodes) = SlabKeys(pre.nodes) \ below
            /\ N \notin below
            /\ SlabKeys(leafs) = kept \cup {now.ptr}
            /\ SlabLen(leafs) = SlabLen(pre.leafs) - Cardinality(under) + 1
            /\ \A n \in SlabKeys(nodes) \ {N} : SlabAt(nodes, n) = SlabAt(pre.nodes, n)
            /\ \A l \in kept : SlabAt(leafs, l) = SlabAt(pre.leafs, l)
            /\ (last.hw = 1 /\ was.ptrs[last.idx + 1] = EMPTY_PTR)
                   => Cardinality(under) = 7
    /\ (fillIdx = FillCount /\ nfree = 0) => SlabLen(leafs) = 1

\* the last voxel of the 8x8x8 cube has just collapsed three levels into 1 leaf
C9_Witness ==
    /\ last.kind = "collapse"
    /\ last.hw = 4
    /\ SlabLen(pre.leafs) > 1
    /\ SlabLen(leafs) = 1

(***************************************************************************)
(* C10.  An in-place edit changes the value of the one leaf slot it        *)
(* reached and nothing else: the node arena and every other leaf slot,     *)
(* free slots included, are as they were.                                  *)
(***************************************************************************)
C10_EditInPlace ==
    last.kind = "edit" =>
        LET ptr == SlabAt(pre.nodes, last.node).ptrs[last.idx + 1] IN
        /\ last.hw = 1
        /\ SlabContains(pre.leafs, ptr)
        /\ nodes = pre.nodes
        /\ leafs = SlabSet(pre.leafs, ptr, last.val)
        /\ SlabKeys(leafs) = SlabKeys(pre.leafs)

\* a voxel has just been overwritten in place with a different value
C10_Witness ==
    /\ last.kind = "edit"
    /\ SlabAt(pre.leafs, SlabAt(pre.nodes, last.node).ptrs[last.idx + 1]) # last.val

(***************************************************************************)
(* The descent shared by the loops of get and insert: the nodes visited    *)
(* for pos from node_ptr at half_width, each with its half-width, whether  *)
(* it is Full, and (for a Mixed node) the octant index oct_index gives at  *)
(* that half-width, and the position as the loop holds it on entering the  *)
(* node.  It ends at a Full node, at an empty slot, or at half-width 1.    *)
(***************************************************************************)
RECURSIVE descent(_, _, _, _)
descent(mem, node_ptr, pos, half_width) ==
    IF ~SlabContains(mem.nodes, node_ptr) THEN <<>>
    ELSE LET node == SlabAt(mem.nodes, node_ptr) IN
         IF node.tag = "Full"
         THEN <<[node |-> node_ptr, hw |-> half_width, full |-> TRUE, idx |-> 0,
                 pos |-> pos]>>
         ELSE LET oi == oct_index(pos, half_width)
                  ptr == node.ptrs[oi.idx + 1]
                  here == [node |-> node_ptr, hw |-> half_width, full |-> FALSE,
                           idx |-> oi.idx, pos |-> pos]
              IN  IF ptr = EMPTY_PTR \/ half_width = 1 THEN <<here>>
                  ELSE <<here>> \o descent(mem, ptr, oi.pos, half_width \div 2)

(***************************************************************************)
(* C11.  After the split of a Full node N, the descent of the insertion    *)
(* position passes N at the index insert computed, meets below N only      *)
(* Mixed nodes, each (above leaf level) with its one Mixed child at the    *)
(* octant index of that level's own half-width and 7 Full children beside  *)
(* it, reaches half-width 1, and the leaf it reaches there holds the new   *)
(* value.                                                                  *)
(***************************************************************************)
C11_SplitAlongDescent ==
    last.kind = "split" =>
        LET path == descent(Mem, 0, last.pos, HALF_WIDTH)
            end == path[Len(path)]
        IN  /\ \E i \in DOMAIN path :
                path[i].node = last.node /\ path[i].hw = last.hw /\ path[i].idx = last.idx
            /\ \A i \in DOMAIN path :
                path[i].hw <= last.hw =>
                    /\ ~path[i].full
                    /\ path[i].hw > 1 =>
                        \A j \in 0..7 :
                            LET c == SlabAt(nodes, path[i].node).ptrs[j + 1] IN
                            /\ SlabContains(nodes, c)
                            /\ SlabAt(nodes, c).tag
                                   = IF j = path[i].idx THEN "Mixed" ELSE "Full"
            /\ end.hw = 1
            /\ ~end.full
            /\ ReadLeaf(Mem, SlabAt(nodes, end.node).ptrs[end.idx + 1]) = Some(last.val)

\* the corner of the cube of side 2 * half_width, aligned to its side, that
\* holds pos: the volume of the node the descent of pos meets at half_width
VolumeOrigin(pos, half_width) ==
    LET side == 2 * half_width IN
    PosU8((pos.x \div side) * side, (pos.y \div side) * side, (pos.z \div side) * side)

\* every voxel of that volume other than pos reads Some(val) through get
OthersAllRead(mem, pos, val, half_width) ==
    LET o == VolumeOrigin(pos, half_width)
        side == 2 * half_width
    IN  \A x \in o.x .. (o.x + side - 1) :
        \A y \in o.y .. (o.y + side - 1) :
        \A z \in o.z .. (o.z + side - 1) :
            PosU8(x, y, z) = pos \/ get(mem, PosU8(x, y, z)) = Some(val)

(***************************************************************************)
(* C12.  The would-become-full predicate is exact: at every Mixed node the *)
(* descent of the last insert(p, v) met in the tree it started from, the   *)
(* predicate is true exactly when every voxel of the node's volume other   *)
(* than p read Some(v) through get in that tree (and it never faults).     *)
(***************************************************************************)
C12_PredicateExact ==
    Inserted =>
        LET path == descent(pre, 0, last.pos, HALF_WIDTH) IN
        \A i \in DOMAIN path :
            (i <= last.iters /\ ~path[i].full) =>
                LET oi == oct_index(path[i].pos, path[i].hw)
                    r == insertion_would_make_node_full(
                             pre, SlabAt(pre.nodes, path[i].node).ptrs, oi.idx,
                             last.val, oi.pos, path[i].hw)
                IN  /\ r # "panic"
                    /\ (r = "true") <=> OthersAllRead(pre, last.pos, last.val, path[i].hw)

\* the predicate was true at a Mixed node of half-width 2 below the root,
\* reached after it had been false at the nodes above
C12_Witness ==
    /\ last.kind = "collapse"
    /\ last.hw = 2
    /\ last.iters = 4
    /\ OthersAllRead(pre, last.pos, last.val, 2)
    /\ ~OthersAllRead(pre, last.pos, last.val, 4)

RECURSIVE Pow2(_)
Pow2(n) == IF n <= 0 THEN 1 ELSE 2 * Pow2(n - 1)

\* the loop iterations a call may take
MaxIterations == Log2(HALF_WIDTH) + 1

(***************************************************************************)
(* C13.  Every call of insert and of get returns within                    *)
(* log2(HALF_WIDTH) + 1 loop iterations: the half-width of iteration k is  *)
(* HALF_WIDTH / 2^(k-1), never below 1, for the iteration insert returned  *)
(* from and for every iteration of get at the read-back positions.         *)
(***************************************************************************)
C13_BoundedIterations ==
    /\ Inserted =>
          /\ last.iters \in 1..MaxIterations
          /\ last.hw >= 1
          /\ last.hw * Pow2(last.iters - 1) = HALF_WIDTH
    /\ \A q \in Probe :
          LET path == descent(Mem, 0, q, HALF_WIDTH) IN
          /\ Len(path) \in 1..MaxIterations
          /\ \A k \in DOMAIN path :
                /\ path[k].hw >= 1
                /\ path[k].hw * Pow2(k - 1) = HALF_WIDTH

\* an insert that returned from the last possible iteration, at half-width
\* 1, after which get at its position also takes all the iterations
C13_Witness ==
    /\ last.kind = "edit"
    /\ last.iters = MaxIterations
    /\ last.hw = 1
    /\ Len(descent(Mem, 0, last.pos, HALF_WIDTH)) = MaxIterations

====
